---- MODULE Spec2Model ----
(***************************************************************************)
(* Model of the oso lexer (src/lex.rs): the function next_token, stepped   *)
(* one loop iteration at a time, and a driver that calls it repeatedly on  *)
(* one buffer with one shared cursor.                                      *)
(***************************************************************************)
EXTENDS Integers, Sequences, FiniteSets, TLC

(* ---------------------------------------------------------------------- *)
(* Bounds                                                                  *)
(* ---------------------------------------------------------------------- *)
MaxLen == 4

\* the iteration counter wraps here; a call that returns never gets that far
IterWrap == MaxLen + 4

(* ---------------------------------------------------------------------- *)
(* Characters and their classes                                            *)
(* ---------------------------------------------------------------------- *)
AlphabeticChars == {"f", "n", "F"}

NumericChars == {"1"}

OtherChars == {" "}

Chars == AlphabeticChars \cup NumericChars \cup OtherChars

\* the characters of the hexadecimal examples "0x1F" and "0x1g" that the
\* general alphabet lacks
HexAlphabeticChars == {"x", "g"}

HexNumericChars == {"0"}

is_alphabetic(c) == c \in AlphabeticChars \cup HexAlphabeticChars

is_numeric(c) == c \in NumericChars \cup HexNumericChars

is_alphanumeric(c) == is_alphabetic(c) \/ is_numeric(c)

HexBuffers == {<<"0", "x", "1", "F">>, <<"0", "x", "1", "g">>}

Buffers == UNION {[1..n -> Chars] : n \in 0..MaxLen} \cup HexBuffers

(* ---------------------------------------------------------------------- *)
(* Tokens and keyword resolution                                           *)
(* ---------------------------------------------------------------------- *)
EOF == [kind |-> "EOF", text |-> <<>>]

Fn == [kind |-> "Fn", text |-> <<>>]

Invalid == [kind |-> "Invalid", text |-> <<>>]

Identifier(s) == [kind |-> "Identifier", text |-> s]

resolve_nocase(s) ==
    IF Len(s) = 2 /\ s[1] \in {"f", "F"} /\ s[2] = "n" THEN Fn ELSE Identifier(s)

resolve(s) ==
    IF s = <<"f", "n">> THEN Fn ELSE Identifier(s)

(* ---------------------------------------------------------------------- *)
(* One iteration of the loop body, per automaton state.  L is the record   *)
(* of the locals: current_state, current_ptr, collected, result, and ctl   *)
(* (how the iteration leaves the match: "continue", "break", "return").    *)
(* ---------------------------------------------------------------------- *)
\* mutant: a skipped character is kept in the accumulator
BeginArm_keepskipped(in, L) ==
    LET c == in[L.current_ptr + 1] IN
    IF is_alphabetic(c)
    THEN [L EXCEPT !.current_state = "Collect",
                   !.collected = Append(L.collected, c),
                   !.current_ptr = L.current_ptr + 1]
    ELSE IF is_numeric(c)
    THEN [L EXCEPT !.current_state = "Numeric",
                   !.collected = Append(L.collected, c),
                   !.current_ptr = L.current_ptr + 1]
    ELSE [L EXCEPT !.collected = Append(L.collected, c),
                   !.current_ptr = L.current_ptr + 1]

\* mutant: a digit starts the Number state
BeginArm_number(in, L) ==
    LET c == in[L.current_ptr + 1] IN
    IF is_alphabetic(c)
    THEN [L EXCEPT !.current_state = "Collect",
                   !.collected = Append(L.collected, c),
                   !.current_ptr = L.current_ptr + 1]
    ELSE IF is_numeric(c)
    THEN [L EXCEPT !.current_state = "Number",
                   !.collected = Append(L.collected, c),
                   !.current_ptr = L.current_ptr + 1]
    ELSE [L EXCEPT !.current_ptr = L.current_ptr + 1]

BeginArm(in, L) ==
    LET c == in[L.current_ptr + 1] IN
    IF is_alphabetic(c)
    THEN [L EXCEPT !.current_state = "Collect",
                   !.collected = Append(L.collected, c),
                   !.current_ptr = L.current_ptr + 1]
    ELSE IF is_numeric(c)
    THEN [L EXCEPT !.current_state = "Numeric",
                   !.collected = Append(L.collected, c),
                   !.current_ptr = L.current_ptr + 1]
    ELSE [L EXCEPT !.current_ptr = L.current_ptr + 1]

\* mutant: the run stops at the first digit
CollectArm_alpha(in, L) ==
    LET c == in[L.current_ptr + 1] IN
    IF is_alphabetic(c)
    THEN [L EXCEPT !.collected = Append(L.collected, c),
                   !.current_ptr = L.current_ptr + 1]
    ELSE [L EXCEPT !.current_state = "Resolve"]

\* mutant: the terminating character is consumed
CollectArm_eat(in, L) ==
    LET c == in[L.current_ptr + 1] IN
    IF is_alphanumeric(c)
    THEN [L EXCEPT !.collected = Append(L.collected, c),
                   !.current_ptr = L.current_ptr + 1]
    ELSE [L EXCEPT !.current_state = "Resolve",
                   !.current_ptr = L.current_ptr + 1]

CollectArm(in, L) ==
    LET c == in[L.current_ptr + 1] IN
    IF is_alphanumeric(c)
    THEN [L EXCEPT !.collected = Append(L.collected, c),
                   !.current_ptr = L.current_ptr + 1]
    ELSE [L EXCEPT !.current_state = "Resolve"]

HexArm(in, L) == L

\* mutant: the Numeric arm consumes the character at the cursor
NumericArm_consume(in, L) == [L EXCEPT !.current_ptr = L.current_ptr + 1]

NumericArm(in, L) == L

NumberArm(in, L) ==
    LET c == in[L.current_ptr + 1] IN
    IF is_numeric(c)
    THEN [L EXCEPT !.collected = Append(L.collected, c),
                   !.current_ptr = L.current_ptr + 1]
    ELSE IF is_alphabetic(c)
    THEN [L EXCEPT !.result = Invalid, !.ctl = "return"]
    ELSE [L EXCEPT !.current_ptr = L.current_ptr + 1]

\* mutant: the terminator is "put back" although it was never consumed
ResolveArm_unread(in, L) ==
    [L EXCEPT !.result = resolve(L.collected), !.ctl = "break",
              !.current_ptr = L.current_ptr - 1]

ResolveArm(in, L) ==
    [L EXCEPT !.result = resolve(L.collected), !.ctl = "break"]

Iteration(in, L) ==
    CASE L.current_state = "Begin"   -> BeginArm(in, L)
      [] L.current_state = "Collect" -> CollectArm(in, L)
      [] L.current_state = "Hex"     -> HexArm(in, L)
      [] L.current_state = "Numeric" -> NumericArm(in, L)
      [] L.current_state = "Number"  -> NumberArm(in, L)
      [] L.current_state = "Resolve" -> ResolveArm(in, L)

\* the loop guard of the while statement
LoopGuard(in, p) == p < Len(in)

\* the arms that read input[*current_ptr]
ReadsBuffer(st) == st \in {"Begin", "Collect", "Number"}

\* mutant: the accumulator is resolved even when it is empty
PostLoop_always(col, res) == resolve(col)

\* mutant: the accumulator left at the end of the buffer is not resolved
PostLoop_skip(col, res) == res

\* the statements after the loop
PostLoop(col, res) == IF Len(col) > 0 THEN resolve(col) ELSE res

\* the locals as the entry of next_token creates them
EntryLocals(p) ==
    [current_state |-> "Begin", current_ptr |-> p, collected |-> <<>>,
     result |-> EOF, ctl |-> "continue"]

\* the loop and the statements after it, run to the return; fuel bounds the
\* iterations, and a run that uses it up has ctl = "diverged"
RECURSIVE RunLoop(_, _, _)
RunLoop(in, L, fuel) ==
    IF fuel = 0 THEN [L EXCEPT !.ctl = "diverged"]
    ELSE IF ~LoopGuard(in, L.current_ptr)
    THEN [L EXCEPT !.result = PostLoop(L.collected, L.result), !.ctl = "return"]
    ELSE LET N == Iteration(in, L) IN
         CASE N.ctl = "return" -> N
           [] N.ctl = "break" ->
                [N EXCEPT !.result = PostLoop(N.collected, N.result),
                          !.ctl = "return"]
           [] OTHER -> RunLoop(in, N, fuel - 1)

\* next_token as a function of the buffer and the cursor
next_token(in, p) == RunLoop(in, EntryLocals(p), IterWrap)

(* ---------------------------------------------------------------------- *)
(* State                                                                   *)
(* ---------------------------------------------------------------------- *)
VARIABLES
    input,          \* the caller's character buffer
    current_ptr,    \* the caller's cursor, shared by the calls
    current_state,  \* automaton state of the running call
    collected,      \* accumulator of the running call
    result,         \* result local of the running call / the returned token
    pc,             \* "idle", "loop", "post", "done"
    start,          \* cursor value when the running call began
    origin,         \* cursor value before the first call
    iters,          \* loop iterations of the running call, modulo IterWrap
    tokens          \* tokens the driver received, up to the first EOF

vars == <<input, current_ptr, current_state, collected, result, pc,
          start, origin, iters, tokens>>

Locals == [current_state |-> current_state, current_ptr |-> current_ptr,
           collected |-> collected, result |-> result, ctl |-> "continue"]

Init ==
    /\ input \in Buffers
    /\ current_ptr \in 0..Len(input)
    /\ origin = current_ptr
    /\ start = current_ptr
    /\ current_state = "Begin"
    /\ collected = <<>>
    /\ result = EOF
    /\ pc = "idle"
    /\ iters = 0
    /\ tokens = <<>>

\* mutant: the result local starts as Invalid
Call_invalid ==
    /\ pc \in {"idle", "done"}
    /\ pc' = "loop"
    /\ result' = Invalid
    /\ current_state' = "Begin"
    /\ collected' = <<>>
    /\ start' = current_ptr
    /\ iters' = 0
    /\ UNCHANGED <<input, current_ptr, origin, tokens>>

\* the driver calls next_token: the locals are created
Call ==
    /\ pc \in {"idle", "done"}
    /\ pc' = "loop"
    /\ result' = EOF
    /\ current_state' = "Begin"
    /\ collected' = <<>>
    /\ start' = current_ptr
    /\ iters' = 0
    /\ UNCHANGED <<input, current_ptr, origin, tokens>>

Received(ts, t) ==
    IF Len(ts) > 0 /\ ts[Len(ts)] = EOF THEN ts ELSE Append(ts, t)

\* one iteration of the while loop
LoopStep ==
    /\ pc = "loop"
    /\ LoopGuard(input, current_ptr)
    /\ LET N == Iteration(input, Locals) IN
        /\ current_state' = N.current_state
        /\ current_ptr' = N.current_ptr
        /\ collected' = N.collected
        /\ result' = N.result
        /\ pc' = CASE N.ctl = "continue" -> "loop"
                   [] N.ctl = "break"    -> "post"
                   [] N.ctl = "return"   -> "done"
        /\ tokens' = IF N.ctl = "return" THEN Received(tokens, N.result)
                     ELSE tokens
    /\ iters' = (iters + 1) % IterWrap
    /\ UNCHANGED <<input, start, origin>>

\* the loop guard fails
LoopExit ==
    /\ pc = "loop"
    /\ ~LoopGuard(input, current_ptr)
    /\ pc' = "post"
    /\ UNCHANGED <<input, current_ptr, current_state, collected, result,
                   start, origin, iters, tokens>>

\* the statements after the loop, and the return to the driver
Finish ==
    /\ pc = "post"
    /\ result' = PostLoop(collected, result)
    /\ tokens' = Received(tokens, result')
    /\ pc' = "done"
    /\ UNCHANGED <<input, current_ptr, current_state, collected,
                   start, origin, iters>>

Next == Call \/ LoopStep \/ LoopExit \/ Finish

Spec == Init /\ [][Next]_vars

\* the driver and the loop keep running: sequential execution
FairSpec == Spec /\ WF_vars(Next)

TypeOK ==
    /\ input \in Buffers
    /\ current_ptr \in 0..Len(input)
    /\ current_state \in {"Begin", "Collect", "Hex", "Numeric", "Number", "Resolve"}
    /\ pc \in {"idle", "loop", "post", "done"}
    /\ iters \in 0..(IterWrap - 1)

(* ---------------------------------------------------------------------- *)
(* Vocabulary of the properties                                            *)
(* ---------------------------------------------------------------------- *)
InCall == pc \in {"loop", "post", "done"}

Returned == pc = "done"

GotEOF == Len(tokens) > 0 /\ tokens[Len(tokens)] = EOF

\* no alphanumeric character at index >= c (0-based) of buf
NoAlnumFrom(buf, c) == \A i \in (c + 1)..Len(buf) : ~is_alphanumeric(buf[i])

(* ---------------------------------------------------------------------- *)
(* C1: every call of next_token terminates: a call that has entered the    *)
(* loop eventually returns, for every buffer and every starting cursor.    *)
(* ---------------------------------------------------------------------- *)
C1_EveryCallReturns == [](pc = "loop" => <>(pc = "done"))

(* ---------------------------------------------------------------------- *)
(* C2: forward progress: when a call returns, the cursor is strictly       *)
(* greater than at the call if input remained there, and it is unchanged   *)
(* only when the call started at the end of the buffer.                    *)
(* ---------------------------------------------------------------------- *)
C2_ForwardProgress ==
    Returned =>
        /\ start < Len(input) => current_ptr > start
        /\ current_ptr = start => start = Len(input)

C2_Witness ==
    /\ Returned
    /\ start < Len(input)
    /\ current_ptr > start
    /\ current_ptr < Len(input)
    /\ result.kind = "Identifier"

(* ---------------------------------------------------------------------- *)
(* C3: a driver calling next_token repeatedly eventually receives EOF,     *)
(* for every buffer.                                                       *)
(* ---------------------------------------------------------------------- *)
C3_DriverReachesEOF == <>GotEOF

(* ---------------------------------------------------------------------- *)
(* C4: idempotence at end of input: a call started with the cursor at the  *)
(* end of the buffer returns EOF and never moves the cursor; and once the  *)
(* driver has received EOF the cursor is at the end, so every later call   *)
(* is such a call.                                                         *)
(* ---------------------------------------------------------------------- *)
C4_IdempotentAtEnd ==
    /\ (InCall /\ start = Len(input)) =>
            /\ current_ptr = start
            /\ Returned => result = EOF
    /\ GotEOF => current_ptr = Len(input)

C4_Witness ==
    /\ Returned
    /\ GotEOF
    /\ start = Len(input)
    /\ Len(tokens) > 1
    /\ result = EOF

(* ---------------------------------------------------------------------- *)
(* C5: when no alphanumeric character lies at or after the cursor, the     *)
(* call returns EOF, never Invalid, and the cursor stays within the        *)
(* buffer.                                                                 *)
(* ---------------------------------------------------------------------- *)
C5_OnlySkippedGivesEOF ==
    (InCall /\ NoAlnumFrom(input, start)) =>
        /\ current_ptr <= Len(input)
        /\ result # Invalid
        /\ Returned => result = EOF

C5_Witness ==
    /\ Returned
    /\ NoAlnumFrom(input, start)
    /\ Len(input) - start >= 2
    /\ current_ptr = Len(input)
    /\ result = EOF

(* ---------------------------------------------------------------------- *)
(* Lexemes of a buffer, by 0-based indices                                 *)
(* ---------------------------------------------------------------------- *)
Least(S) == CHOOSE i \in S : \A j \in S : i <= j

\* index of the first alphanumeric character at or after c, else Len(buf)
FirstAlnum(buf, c) ==
    LET S == {i \in c..(Len(buf) - 1) : is_alphanumeric(buf[i + 1])}
    IN  IF S = {} THEN Len(buf) ELSE Least(S)

\* index just after the maximal alphanumeric run that starts at s
RunEnd(buf, s) ==
    Least({j \in s..Len(buf) : j = Len(buf) \/ ~is_alphanumeric(buf[j + 1])})

Slice(buf, a, b) == SubSeq(buf, a + 1, b)

\* a word: an alphabetic character followed by alphanumeric characters
IsWord(w) ==
    /\ Len(w) > 0
    /\ is_alphabetic(w[1])
    /\ \A i \in 1..Len(w) : is_alphanumeric(w[i])

\* the token the specification gives a word
WordToken(w) == IF w = <<"f", "n">> THEN Fn ELSE Identifier(w)

\* the first lexeme at or after c is a word
WordAhead(buf, c) ==
    /\ FirstAlnum(buf, c) < Len(buf)
    /\ is_alphabetic(buf[FirstAlnum(buf, c) + 1])

FirstLexeme(buf, c) == Slice(buf, FirstAlnum(buf, c), RunEnd(buf, FirstAlnum(buf, c)))

\* the tokens of the lexemes at or after c, left to right
RECURSIVE LexemeTokens(_, _)
LexemeTokens(buf, c) ==
    IF FirstAlnum(buf, c) >= Len(buf) THEN <<>>
    ELSE <<WordToken(FirstLexeme(buf, c))>>
            \o LexemeTokens(buf, RunEnd(buf, FirstAlnum(buf, c)))

\* the state in which the first call of the driver has just returned
FirstReturn == Returned /\ start = origin /\ Len(tokens) = 1

(* ---------------------------------------------------------------------- *)
(* C6: keyword resolution: on a buffer that is exactly one word w, the     *)
(* first call from cursor 0 returns, and it returns Fn when w is "fn"      *)
(* (case-sensitive) and Identifier(w) for every other w.                   *)
(* ---------------------------------------------------------------------- *)
C6_KeywordResolution ==
    [](  (pc = "idle" /\ origin = 0 /\ IsWord(input))
      => <>( /\ FirstReturn
             /\ tokens[1] = result
             /\ result.kind = "Fn" <=> input = <<"f", "n">>
             /\ result.kind # "Fn" => result = Identifier(input) ))

C6_Witness ==
    /\ FirstReturn
    /\ origin = 0
    /\ input = <<"F", "n">>
    /\ result = Identifier(<<"F", "n">>)

(* ---------------------------------------------------------------------- *)
(* C7: maximal munch: when the first alphanumeric character at or after    *)
(* the cursor is alphabetic, the word resolved is the whole maximal run of *)
(* alphanumeric characters that starts there ("fn1" is one Identifier).    *)
(* ---------------------------------------------------------------------- *)
C7_MaximalMunch ==
    (Returned /\ WordAhead(input, start)) =>
        /\ collected = FirstLexeme(input, start)
        /\ result.kind \in {"Fn", "Identifier"}
        /\ result.kind = "Identifier" => result.text = FirstLexeme(input, start)
        /\ result.kind = "Fn" => FirstLexeme(input, start) = <<"f", "n">>
        /\ input = <<"f", "n", "1">> /\ start = 0
                => result = Identifier(<<"f", "n", "1">>)

C7_Witness ==
    /\ Returned
    /\ start = 0
    /\ Len(input) > 3
    /\ SubSeq(input, 1, 3) = <<"f", "n", "1">>
    /\ result = Identifier(<<"f", "n", "1">>)

(* ---------------------------------------------------------------------- *)
(* C8: skipped characters are transparent: the token returned is the one   *)
(* returned for the same buffer with the skipped characters before the     *)
(* lexeme removed, and when Fn or Identifier is returned the cursor is     *)
(* just after the last character of the lexeme (the terminator is not      *)
(* consumed).                                                              *)
(* ---------------------------------------------------------------------- *)
C8_SkippedTransparent ==
    (Returned /\ result.kind \in {"Fn", "Identifier"}) =>
        LET s == FirstAlnum(input, start)
            alone == next_token(Slice(input, s, Len(input)), 0)
        IN  /\ s < Len(input)
            /\ current_ptr = RunEnd(input, s)
            /\ alone.ctl = "return"
            /\ alone.result = result
            /\ alone.current_ptr = current_ptr - s

C8_Witness ==
    /\ Returned
    /\ result.kind \in {"Fn", "Identifier"}
    /\ FirstAlnum(input, start) >= start + 2
    /\ current_ptr < Len(input)

(* ---------------------------------------------------------------------- *)
(* C9: when a word is followed only by non-alphanumeric characters up to   *)
(* the end of the buffer, two sequential calls return the word's token and *)
(* then EOF.                                                               *)
(* ---------------------------------------------------------------------- *)
WordThenSkipped(buf, c) ==
    /\ WordAhead(buf, c)
    /\ NoAlnumFrom(buf, RunEnd(buf, FirstAlnum(buf, c)))

C9_WordThenEOF ==
    [](  (pc = "idle" /\ WordThenSkipped(input, origin))
      => <>(tokens = <<WordToken(FirstLexeme(input, origin)), EOF>>) )

C9_Witness ==
    /\ Returned
    /\ input = <<"f", "n", " ">>
    /\ origin = 0
    /\ tokens = <<Fn, EOF>>

(* ---------------------------------------------------------------------- *)
(* C10: one token per call, in order: repeated calls obtain the tokens of  *)
(* the lexemes of the buffer, left to right, none lost, merged or          *)
(* repeated, and then EOF.                                                 *)
(* ---------------------------------------------------------------------- *)
C10_AllLexemesInOrder ==
    <>(tokens = LexemeTokens(input, origin) \o <<EOF>>)

(* ---------------------------------------------------------------------- *)
(* Numerals of a buffer                                                    *)
(* ---------------------------------------------------------------------- *)
\* index just after the maximal run of decimal digits that starts at s
DigitsEnd(buf, s) ==
    Least({j \in s..Len(buf) : j = Len(buf) \/ ~is_numeric(buf[j + 1])})

\* the first lexeme at or after c starts with a decimal digit
NumeralAhead(buf, c) ==
    /\ FirstAlnum(buf, c) < Len(buf)
    /\ is_numeric(buf[FirstAlnum(buf, c) + 1])

\* ... and its run of digits is followed directly by an alphabetic character
NumeralThenLetter(buf, c) ==
    /\ NumeralAhead(buf, c)
    /\ DigitsEnd(buf, FirstAlnum(buf, c)) < Len(buf)
    /\ is_alphabetic(buf[DigitsEnd(buf, FirstAlnum(buf, c)) + 1])

(* ---------------------------------------------------------------------- *)
(* C11: a run of decimal digits followed directly by an alphabetic         *)
(* character makes the call return Invalid, with the cursor strictly       *)
(* greater than before the call.                                           *)
(* ---------------------------------------------------------------------- *)
C11_NumeralThenLetterInvalid ==
    [](  (pc = "idle" /\ NumeralThenLetter(input, origin))
      => <>(FirstReturn /\ result = Invalid /\ current_ptr > start) )

(* ---------------------------------------------------------------------- *)
(* C12: a leading digit never starts an identifier: no call returns        *)
(* Identifier(t) with t beginning with a decimal digit, and a lexeme that  *)
(* starts with a digit is never given to the keyword/identifier            *)
(* resolution.                                                             *)
(* ---------------------------------------------------------------------- *)
C12_NoDigitLedIdentifier ==
    Returned =>
        /\ (result.kind = "Identifier" /\ Len(result.text) > 0)
                => ~is_numeric(result.text[1])
        /\ NumeralAhead(input, start) => result.kind \notin {"Fn", "Identifier"}

(* ---------------------------------------------------------------------- *)
(* C13: hexadecimal literals: scanning "0x1F" returns one hex-literal      *)
(* token carrying the text "0x1F", and scanning "0x1g" returns Invalid.    *)
(* ---------------------------------------------------------------------- *)
\* the hex-literal token of the specification
HexLiteral(s) == [kind |-> "HexLiteral", text |-> s]

C13_HexLiterals ==
    [](  (pc = "idle" /\ origin = 0)
      => /\ input = <<"0", "x", "1", "F">>
                => <>(FirstReturn /\ result = HexLiteral(<<"0", "x", "1", "F">>))
         /\ input = <<"0", "x", "1", "g">>
                => <>(FirstReturn /\ result = Invalid) )

(* ---------------------------------------------------------------------- *)
(* C14: EOF is returned only at true end of input: a call that returns EOF *)
(* started with no alphanumeric character at or after its cursor; a call   *)
(* that started with a lexeme ahead returns a token other than EOF.        *)
(* ---------------------------------------------------------------------- *)
C14_EOFOnlyAtEnd ==
    Returned =>
        /\ result = EOF => NoAlnumFrom(input, start)
        /\ FirstAlnum(input, start) < Len(input) => result.kind # "EOF"

C14_Witness ==
    /\ Returned
    /\ result = EOF
    /\ start < Len(input)
    /\ Len(tokens) = 2
    /\ tokens[1].kind = "Identifier"

(* ---------------------------------------------------------------------- *)
(* C15: cursor bounds: the cursor stays within 0..len(buffer) in every     *)
(* state, an iteration that reads input[cursor] runs with cursor < len,    *)
(* and no step decreases the cursor.                                       *)
(* ---------------------------------------------------------------------- *)
C15_CursorBounds ==
    /\ [](/\ 0 <= current_ptr
          /\ current_ptr <= Len(input)
          /\ (pc = "loop" /\ LoopGuard(input, current_ptr)
                /\ ReadsBuffer(current_state)) => current_ptr < Len(input))
    /\ [][current_ptr' >= current_ptr]_vars

C15_Witness ==
    /\ Returned
    /\ start = 0
    /\ current_ptr = Len(input)
    /\ Len(input) >= 3
    /\ current_state = "Collect"

(* ---------------------------------------------------------------------- *)
(* C16: during a call the accumulator holds only alphanumeric characters   *)
(* and is the contiguous slice of the buffer that ends just before the     *)
(* cursor; characters skipped in Begin never appear in it.                 *)
(* ---------------------------------------------------------------------- *)
C16_CollectedIsSlice ==
    InCall =>
        /\ \A i \in 1..Len(collected) : is_alphanumeric(collected[i])
        /\ current_ptr - Len(collected) >= start
        /\ collected = Slice(input, current_ptr - Len(collected), current_ptr)
        /\ Len(collected) > 0
                => current_ptr - Len(collected) = FirstAlnum(input, start)

C16_Witness ==
    /\ pc = "loop"
    /\ Len(collected) >= 2
    /\ FirstAlnum(input, start) > start
    /\ current_ptr < Len(input)

(* ---------------------------------------------------------------------- *)
(* C17: the Resolve state is entered only with a non-empty accumulator and *)
(* a non-alphanumeric character at the cursor; resolve is never applied to *)
(* the empty string, so no result is the identifier with the empty text.   *)
(* ---------------------------------------------------------------------- *)
C17_ResolveOnlyOnTerminator ==
    /\ current_state = "Resolve" =>
            /\ Len(collected) > 0
            /\ current_ptr < Len(input)
            /\ ~is_alphanumeric(input[current_ptr + 1])
    /\ result # Identifier(<<>>)

C17_Witness ==
    /\ pc = "loop"
    /\ current_state = "Resolve"
    /\ Len(collected) >= 2

(* ---------------------------------------------------------------------- *)
(* C18: the states Hex and Number are never entered, so no call returns    *)
(* Invalid: every returning call returns EOF, Fn or Identifier.            *)
(* ---------------------------------------------------------------------- *)
C18_NoHexNumberInvalid ==
    /\ current_state \notin {"Hex", "Number"}
    /\ result # Invalid
    /\ \A i \in 1..Len(tokens) : tokens[i].kind \in {"EOF", "Fn", "Identifier"}
    /\ Returned => result.kind \in {"EOF", "Fn", "Identifier"}

C18_Witness ==
    /\ pc = "loop"
    /\ current_state = "Numeric"
    /\ NumeralThenLetter(input, start)
    /\ iters >= 2

(* ---------------------------------------------------------------------- *)
(* C19: in state Numeric with cursor < len no step changes the cursor, the *)
(* accumulator or the state; so a call returns if and only if the first    *)
(* alphanumeric character at or after its starting cursor is not a decimal *)
(* digit, or is a decimal digit that is the last character of the buffer.  *)
(* ---------------------------------------------------------------------- *)
NumericStuck ==
    pc = "loop" /\ current_state = "Numeric" /\ current_ptr < Len(input)

ReturnCondition(buf, c) ==
    \/ ~NumeralAhead(buf, c)
    \/ FirstAlnum(buf, c) = Len(buf) - 1

C19_NumericNeverLeaves ==
    /\ [][NumericStuck => (/\ NumericStuck'
                           /\ current_ptr' = current_ptr
                           /\ collected' = collected
                           /\ current_state' = current_state)]_vars
    /\ [](Returned => ReturnCondition(input, start))
    /\ []((pc = "loop" /\ ReturnCondition(input, start)) => <>Returned)

C19_Witness ==
    /\ NumericStuck
    /\ iters >= 2
    /\ ~ReturnCondition(input, start)

====
